---- MODULE Spec2Model ----
(***************************************************************************)
(* Model of users/views.py: the read paths UserMeViewSet.get_object and    *)
(* UserViewSet.get_queryset with their annotations (vps_count, workload,   *)
(* applications_deployed), over a database of users, vps records and       *)
(* application records.                                                    *)
(*                                                                         *)
(* The annotations are modelled by what the ORM compiles them to: one      *)
(* SELECT over users LEFT OUTER JOIN vps LEFT OUTER JOIN application,      *)
(* GROUP BY user, with COUNT(vps.id), COUNT(DISTINCT application.id) and   *)
(* a CASE WHEN over COUNT(vps.id).                                         *)
(***************************************************************************)
EXTENDS Integers, FiniteSets, Sequences

\* ---- bounds ----
MaxUsers == 2
MaxVps == 4
MaxApp == 3
MaxCount == 10
MaxNeg == 3
MaxCalls == 2

UserIds == 1..MaxUsers
VpsIds == 1..MaxVps
AppIds == 1..MaxApp
Counts == (0 - MaxNeg)..MaxCount

NULL == 0
NoRead == "NO_READ"
Labels == {"VERY_EASY", "EASY", "MEDIUM", "HARD"}

VARIABLES
    users,        \* ids of the rows of the User table
    vps,          \* vps table: set of <<vps id, user id>>
    application,  \* application table: set of <<application id, user id>>
    response,     \* response of the request served last
    seen,         \* per user, the workload label read since the last write
    calls         \* log of direct evaluations of the CASE expression

vars == <<users, vps, application, response, seen, calls>>
db == <<users, vps, application>>

\* ---- related records of a user (reverse relations "vps", "application") ----
VpsOf(u) == {r[1] : r \in {x \in vps : x[2] = u}}
AppOf(u) == {r[1] : r \in {x \in application : x[2] = u}}

\* One side of a LEFT OUTER JOIN: the related ids, or a single NULL.
OuterSide(S) == IF S = {} THEN {NULL} ELSE S

\* Rows the query groups for user u: both multi-valued relations are joined
\* in the same SELECT, so every vps row is paired with every application row.
JoinRows(u) == OuterSide(VpsOf(u)) \X OuterSide(AppOf(u))

\* Count("vps"): COUNT(vps.id) over the joined rows, NULLs not counted.
VpsCount(u) == Cardinality({r \in JoinRows(u) : r[1] # NULL})

\* Count("application"), no distinct: what a missing distinct=True computes.
ApplicationsDeployedNoDistinct(u) ==
    Cardinality({r \in JoinRows(u) : r[2] # NULL})
\* Count("application", distinct=True): COUNT(DISTINCT application.id).
ApplicationsDeployed(u) == Cardinality({r[2] : r \in JoinRows(u)} \ {NULL})

\* vps_count__range=[a, b] is BETWEEN a AND b, both ends included.
InRange(n, a, b) == a <= n /\ n <= b

\* The Case of get_object with its first two When clauses swapped.
WorkloadMeSwapped(n) ==
    IF InRange(n, 3, 8) THEN "MEDIUM"
    ELSE IF InRange(n, 1, 3) THEN "EASY"
    ELSE IF n >= 9 THEN "HARD"
    ELSE "VERY_EASY"
\* The Case of get_object without its default: no match gives NULL.
WorkloadMeNoDefault(n) ==
    IF InRange(n, 1, 3) THEN "EASY"
    ELSE IF InRange(n, 3, 8) THEN "MEDIUM"
    ELSE IF n >= 9 THEN "HARD"
    ELSE "NULL"
\* The Case of get_object with vps_count__lte=3 as its first condition.
WorkloadMeLte(n) ==
    IF n <= 3 THEN "EASY"
    ELSE IF InRange(n, 3, 8) THEN "MEDIUM"
    ELSE IF n >= 9 THEN "HARD"
    ELSE "VERY_EASY"
\* Case(When, When, When, default) of get_object: first matching When wins.
WorkloadMe(n) ==
    IF InRange(n, 1, 3) THEN "EASY"
    ELSE IF InRange(n, 3, 8) THEN "MEDIUM"
    ELSE IF n >= 9 THEN "HARD"
    ELSE "VERY_EASY"

\* Case(When, When, When, default) of get_queryset.
WorkloadList(n) ==
    IF InRange(n, 1, 3) THEN "EASY"
    ELSE IF InRange(n, 3, 8) THEN "MEDIUM"
    ELSE IF n >= 9 THEN "HARD"
    ELSE "VERY_EASY"

\* annotate(...) of get_object applied to the row of user u.
AnnotateMe(u) ==
    [id |-> u,
     vps_count |-> VpsCount(u),
     workload |-> WorkloadMe(VpsCount(u)),
     applications_deployed |-> ApplicationsDeployed(u)]

\* annotate(...) of get_queryset with a plain Count("application").
AnnotateListNoDistinct(u) ==
    [id |-> u,
     vps_count |-> VpsCount(u),
     workload |-> WorkloadList(VpsCount(u)),
     applications_deployed |-> ApplicationsDeployedNoDistinct(u)]
\* annotate(...) of get_queryset applied to the row of user u.
AnnotateList(u) ==
    [id |-> u,
     vps_count |-> VpsCount(u),
     workload |-> WorkloadList(VpsCount(u)),
     applications_deployed |-> ApplicationsDeployed(u)]

\* QuerySet.first(): the row with the least primary key, or nothing.
\* The result is a set of at most one row; {} stands for None.
First(rows) ==
    IF rows = {} THEN {}
    ELSE {r \in rows : \A s \in rows : r.id <= s.id}

\* get_object without the filter(id=request.user.id).
GetObjectNoFilter(requester) == First({AnnotateMe(u) : u \in users})
\* UserMeViewSet.get_object for request.user.id = requester.
GetObject(requester) ==
    First({AnnotateMe(u) : u \in {x \in users : x = requester}})

\* UserViewSet.get_queryset: every user, annotated.
GetQueryset == {AnnotateList(u) : u \in users}

NoResponse == [kind |-> "none", requester |-> 0, rows |-> {}]
NoneSeen == [u \in UserIds |-> NoRead]

Init ==
    /\ users = {}
    /\ vps = {}
    /\ application = {}
    /\ response = NoResponse
    /\ seen = NoneSeen
    /\ calls = <<>>

\* ---- writes ----

\* UserRegisterView.post: a new row in the User table.
Register(u) ==
    /\ u \notin users
    /\ users' = users \cup {u}
    /\ response' = NoResponse
    /\ seen' = NoneSeen
    /\ UNCHANGED <<vps, application, calls>>

\* UserMeViewSet destroy: get_object().delete(); the related rows go with it.
DestroyMe(u) ==
    /\ GetObject(u) # {}
    /\ users' = users \ {u}
    /\ vps' = {x \in vps : x[2] # u}
    /\ application' = {x \in application : x[2] # u}
    /\ response' = NoResponse
    /\ seen' = NoneSeen
    /\ UNCHANGED calls

\* A vps record is associated with an existing user.
AddVps(v, u) ==
    /\ u \in users
    /\ \A x \in vps : x[1] # v
    /\ vps' = vps \cup {<<v, u>>}
    /\ response' = NoResponse
    /\ seen' = NoneSeen
    /\ UNCHANGED <<users, application, calls>>

RemoveVps(v) ==
    /\ \E x \in vps : x[1] = v
    /\ vps' = {x \in vps : x[1] # v}
    /\ response' = NoResponse
    /\ seen' = NoneSeen
    /\ UNCHANGED <<users, application, calls>>

\* An application record is associated with an existing user.
AddApplication(a, u) ==
    /\ u \in users
    /\ \A x \in application : x[1] # a
    /\ application' = application \cup {<<a, u>>}
    /\ response' = NoResponse
    /\ seen' = NoneSeen
    /\ UNCHANGED <<users, vps, calls>>

RemoveApplication(a) ==
    /\ \E x \in application : x[1] = a
    /\ application' = {x \in application : x[1] # a}
    /\ response' = NoResponse
    /\ seen' = NoneSeen
    /\ UNCHANGED <<users, vps, calls>>

\* ---- reads ----

\* A retrieve whose get_object also deletes one vps record of the user.
RetrieveMeTouching(u) ==
    /\ response' = [kind |-> "me", requester |-> u, rows |-> GetObject(u)]
    /\ seen' = [x \in UserIds |->
                  IF x = u /\ GetObject(u) # {}
                  THEN (CHOOSE r \in GetObject(u) : TRUE).workload
                  ELSE seen[x]]
    /\ vps' = IF VpsOf(u) = {} THEN vps
              ELSE vps \ {<<CHOOSE v \in VpsOf(u) : TRUE, u>>}
    /\ UNCHANGED <<users, application, calls>>
\* UserMeViewSet retrieve: the response carries get_object().
RetrieveMe(u) ==
    /\ response' = [kind |-> "me", requester |-> u, rows |-> GetObject(u)]
    /\ seen' = [x \in UserIds |->
                  IF x = u /\ GetObject(u) # {}
                  THEN (CHOOSE r \in GetObject(u) : TRUE).workload
                  ELSE seen[x]]
    /\ UNCHANGED <<users, vps, application, calls>>

\* UserViewSet list: the response carries every row of get_queryset().
ListUsers ==
    /\ response' = [kind |-> "list", requester |-> 0, rows |-> GetQueryset]
    /\ seen' = [x \in UserIds |->
                  IF x \in users
                  THEN (CHOOSE r \in GetQueryset : r.id = x).workload
                  ELSE seen[x]]
    /\ UNCHANGED <<users, vps, application, calls>>

Next ==
    \/ \E u \in UserIds : Register(u)
    \/ \E u \in UserIds : DestroyMe(u)
    \/ \E v \in VpsIds, u \in UserIds : AddVps(v, u)
    \/ \E v \in VpsIds : RemoveVps(v)
    \/ \E a \in AppIds, u \in UserIds : AddApplication(a, u)
    \/ \E a \in AppIds : RemoveApplication(a)
    \/ \E u \in UserIds : RetrieveMe(u)
    \/ ListUsers

Spec == Init /\ [][Next]_vars

\* ---- the CASE expression on its own, over a range of counts ----

\* Evaluate both copies of the Case on n and log the outcome.
Classify(n) ==
    /\ Len(calls) < MaxCalls
    /\ calls' = Append(calls, [n |-> n, me |-> WorkloadMe(n),
                               list |-> WorkloadList(n)])
    /\ UNCHANGED <<users, vps, application, response, seen>>

NextClassify == \E n \in Counts : Classify(n)

SpecClassify == Init /\ [][NextClassify]_vars

\* ---- properties ----

\* The rule table of the workload tiers, written out by intervals.
RuleLabel(n) ==
    CASE n = 0 -> "VERY_EASY"
      [] n \in 1..3 -> "EASY"
      [] n \in 4..8 -> "MEDIUM"
      [] n >= 9 -> "HARD"
      [] OTHER -> "UNDEFINED"

SameFields(r, s) ==
    /\ r.id = s.id
    /\ r.vps_count = s.vps_count
    /\ r.workload = s.workload
    /\ r.applications_deployed = s.applications_deployed

\* The workload label a self-profile read of user u returns in this state.
LabelRead(u) == (CHOOSE r \in GetObject(u) : TRUE).workload

\* C1: for every n >= 0 the Case of get_object and the Case of get_queryset
\* both give VERY_EASY for 0, EASY for 1..3 (3 included), MEDIUM for 4..8
\* and HARD from 9 on.
C1_FirstMatchWins ==
    \A i \in 1..Len(calls) :
        calls[i].n >= 0 =>
            /\ calls[i].me = RuleLabel(calls[i].n)
            /\ calls[i].list = RuleLabel(calls[i].n)

C1_Witness ==
    /\ Len(calls) = 2
    /\ calls[1].n = 3 /\ calls[1].me = "EASY" /\ calls[1].list = "EASY"
    /\ calls[2].n = 9 /\ calls[2].me = "HARD"

\* C2: every row of every read response (self-profile or listing) carries a
\* workload that is one of the four labels.
C2_WorkloadInLabels ==
    \A r \in response.rows : r.workload \in Labels

C2_Witness ==
    /\ response.kind = "me"
    /\ \E r \in response.rows :
          r.workload = "VERY_EASY" /\ AppOf(r.id) # {}

\* C3: the vps_count of every row of a read response is the number of vps
\* records of that user at the read.
C3_VpsCountExact ==
    \A r \in response.rows : r.vps_count = Cardinality(VpsOf(r.id))

\* C4: a step that changes neither the users nor the vps records (so only
\* application records) changes no user's workload label.
C4_WorkloadIgnoresApplications ==
    [][(users' = users /\ vps' = vps) =>
          \A u \in users : LabelRead(u)' = LabelRead(u)]_vars

\* C5: the applications_deployed of every row of a read response is the
\* number of distinct application records of that user at the read.
C5_ApplicationsDeployedExact ==
    \A r \in response.rows :
        r.applications_deployed = Cardinality(AppOf(r.id))

C5_Witness ==
    \E r \in response.rows :
        /\ Cardinality(VpsOf(r.id)) >= 2
        /\ Cardinality(AppOf(r.id)) >= 2
        /\ r.applications_deployed = Cardinality(AppOf(r.id))

C7_LabelOfCurrentCount ==
    \A r \in response.rows :
        r.workload = RuleLabel(Cardinality(VpsOf(r.id)))

\* C8: a step after which some user's label counts as read (a read, no
\* write) changes no record, and a label read again with no write in
\* between is the label read before.
C8_ReadsPure ==
    [][/\ (\E u \in UserIds : seen'[u] # NoRead) => db' = db
       /\ \A u \in UserIds :
             (seen[u] # NoRead /\ seen'[u] # NoRead) => seen'[u] = seen[u]
      ]_vars

C8_Witness ==
    /\ response.kind = "me"
    /\ response.rows # {}
    /\ \A u \in UserIds : seen[u] # NoRead
    /\ \E u \in UserIds : VpsOf(u) # {}

\* C9: a self-profile response holds at most the row whose id is
\* request.user.id, and nothing when no such user exists.
C9_OnlyRequester ==
    response.kind = "me" =>
        /\ \A r \in response.rows : r.id = response.requester
        /\ Cardinality(response.rows) <= 1
        /\ response.requester \notin users => response.rows = {}

C9_Witness ==
    /\ response.kind = "me"
    /\ response.requester = 2
    /\ 1 \in users
    /\ \E r \in response.rows : r.id = 2

\* C10: the row a self-profile read returns for a user and the row the
\* listing holds for that user have the same vps_count, workload and
\* applications_deployed.
C10_ViewsAgree ==
    /\ response.kind = "me" =>
          \A r \in response.rows :
              \E s \in GetQueryset : SameFields(r, s)
    /\ response.kind = "list" =>
          \A s \in response.rows :
              \A r \in GetObject(s.id) : SameFields(r, s)

C10_Witness ==
    /\ response.kind = "list"
    /\ \E s \in response.rows :
          s.workload = "HARD" /\ s.applications_deployed >= 2

====
